---- MODULE Spec2Model ----
(***************************************************************************)
(* TwitterScraper (src/twitter_scraper.py): the scroll-driven collection   *)
(* loop of scrape, the Content Observer collect_articles, the Scroll       *)
(* Driver scroll_page, the snapshot writer save_progress and the final     *)
(* timestamp sort, as a state machine whose steps are the statements of    *)
(* scrape and of the methods it calls.                                     *)
(***************************************************************************)
EXTENDS Integers, Sequences, FiniteSets, TLC

(* ------------------------------ bounds --------------------------------- *)
\* most elements wait_for_elements returns in one pass
MaxElems == 2
\* the surface extent (scrollHeight) grows at most to this value
MaxHeight == 1
\* new_content_retries is drawn from 1..MaxRetries
MaxRetries == 2
\* max_scrolls is None or drawn from 0..MaxMaxScrolls
MaxMaxScrolls == 1

\* SpecScroll draws scroll_attempt_limit from 1..MaxAttemptLimit
MaxAttemptLimit == 5
MaxStore == 3
MaxCookies == 2

(* ------------------------- program constants --------------------------- *)
\* defaults of __init__, which app.py leaves in place
DefaultScrollPixelIncrement == 1000
DefaultScrollAttemptLimit == 5
DefaultNewContentRetries == 3

(* ------------------------------ values --------------------------------- *)
None == "None"
\* 'tweet_time' not in locals(): the local has not been assigned in this call
Unbound == "unbound"
\* datetime attribute values of <time> markers
Times == {"t1"}
\* innerHTML values of <article> elements
Htmls == {"h1", "h2"}
NoTime == "notime"

\* What one located <article> element does when it is read:
\*   fault "stale": StaleElementReferenceException while reading it
\*   fault "error": another WebDriver error while reading it
\*   html "":       get_attribute("innerHTML") is empty
\*   time NoTime:   find_element(By.TAG_NAME, "time") raises NoSuchElementException
Elements ==
    {[html |-> h, time |-> t, fault |-> "none"] : h \in Htmls, t \in Times \cup {NoTime}}
    \cup {[html |-> "", time |-> NoTime, fault |-> "none"],
          [html |-> "h1", time |-> NoTime, fault |-> "stale"],
          [html |-> "h1", time |-> NoTime, fault |-> "error"]}

NoArticle == [html |-> "", time |-> NoTime, fault |-> "unset"]

\* max_scrolls: <<>> is None, <<n>> is the integer n
MaxScrollsValues == {<<>>} \cup {<<n>> : n \in 0..MaxMaxScrolls}

VARIABLES
    pc,                    \* position in scrape and in the method it is calling
    article_htmls,         \* self.article_htmls: the OrderedDict, as its sequence of
                           \* [key, html, timestamp] entries in insertion order
    driver,                \* self.driver: "none" (not created), "open" or "quit"
    cookie_file,           \* cookies.json in the working directory: "missing" | "present"
    cookies,               \* the cookies of the file, each "pending", "added" or "rejected"
    page_loads,            \* the navigation commands the session has executed
    max_scrolls, save_screenshots, new_content_retries,   \* arguments of scrape
    scroll_attempt_limit, scroll_pixel_increment,         \* self.*, set by __init__
    scroll_count, no_new_content_count, prev_count,       \* locals of scrape
    pass_kind,             \* which call of collect_articles is running: "primary" | "final"
    remaining,             \* collect_articles: elements of `articles` not yet visited
    article,               \* collect_articles: the loop variable
    tweet_time,            \* collect_articles: the local tweet_time (Unbound before assignment)
    height,                \* document.documentElement.scrollHeight of the surface
    initial_height, new_height, attempt,                  \* locals of scroll_page
    scroll_cmds,           \* window.scrollBy amounts issued by the running scroll_page call
    scroll_result,         \* value scroll_page returned: None (not yet) | "True" | "False"
    exc,                   \* the exception in flight in scrape: None or where it was raised
    log,                   \* logging.error / logging.info messages emitted (as a set)
    snapshots,             \* files written by save_progress, each the entries it wrote
    result,                \* the list scrape returns (<<>> until pc = "returned")
    quit_count,            \* number of driver.quit() calls
    scroll_calls,          \* number of scroll_page invocations
    passes_in_iter,        \* collect_articles calls since the top of the loop
    pass_base,             \* store size when the running/last pass began
    nogrowth_passes,       \* consecutive most recent completed passes that added nothing
    nogrowth_primary,      \* the same, counting primary passes only
    lookup                 \* what wait_for_elements did in the pass the loop has not yet
                           \* decided on: "none" | "found" | "timeout" | "error"

vars == <<pc, article_htmls, driver, max_scrolls, save_screenshots, new_content_retries,
          scroll_attempt_limit, scroll_pixel_increment,
          scroll_count, no_new_content_count, prev_count, pass_kind, remaining, article,
          tweet_time, height, initial_height, new_height, attempt, scroll_cmds,
          scroll_result, exc, log, snapshots, result, quit_count, scroll_calls,
          passes_in_iter, pass_base, nogrowth_passes, nogrowth_primary, lookup,
          cookie_file, cookies, page_loads>>

setupVars == <<cookie_file, cookies, page_loads>>
argVars == <<max_scrolls, save_screenshots, new_content_retries,
            scroll_attempt_limit, scroll_pixel_increment>>
loopVars == <<scroll_count, no_new_content_count, prev_count>>
collectVars == <<pass_kind, remaining, article, tweet_time>>
scrollVars == <<height, initial_height, new_height, attempt, scroll_cmds, scroll_result>>
endVars == <<exc, snapshots, result, quit_count, driver>>
passHist == <<passes_in_iter, pass_base, nogrowth_passes, nogrowth_primary>>

(* --------------------------- Fragment Store ---------------------------- *)
Keys(store) == {store[i].key : i \in 1..Len(store)}

\* `key not in self.article_htmls`
Contains(store, key) == key \in Keys(store)

\* mutant of Put: the assignment rebinds the store to a new dict holding the entry
Put_Fresh(store, key, html, ts) ==
    <<[key |-> key, html |-> html, timestamp |-> ts]>>

\* self.article_htmls[key] = {"html": ..., "timestamp": ...} for a key not yet present
Put(store, key, html, ts) ==
    Append(store, [key |-> key, html |-> html, timestamp |-> ts])

\* mutant of Insert: the `key not in` test is missing, a later capture overwrites
Insert_Overwrite(store, key, html, ts) ==
    IF Contains(store, key)
    THEN [i \in 1..Len(store) |->
            IF store[i].key = key THEN [key |-> key, html |-> html, timestamp |-> ts]
            ELSE store[i]]
    ELSE Put(store, key, html, ts)

\* lines 156-160: insert only when the key is absent
Insert(store, key, html, ts) ==
    IF Contains(store, key) THEN store ELSE Put(store, key, html, ts)

\* line 159: tweet_time if 'tweet_time' in locals() else None
TimestampOf(tt) == IF tt = Unbound THEN None ELSE tt

\* the navigation of a completed setup: setup_driver's get (line 78), then
\* load_cookies' refresh and get (lines 90-91)
SetupLoads == <<"get", "refresh", "get">>

\* scrape is called on a session whose setup is complete (a cookie file without
\* cookies)
Init ==
    /\ pc = "start"
    /\ article_htmls = <<>>
    /\ driver = "open"
    /\ max_scrolls \in MaxScrollsValues
    /\ save_screenshots \in BOOLEAN
    /\ new_content_retries \in 1..MaxRetries
    /\ scroll_attempt_limit = DefaultScrollAttemptLimit
    /\ scroll_pixel_increment = DefaultScrollPixelIncrement
    /\ scroll_count = 0
    /\ no_new_content_count = 0
    /\ prev_count = 0
    /\ pass_kind = "primary"
    /\ remaining = 0
    /\ article = NoArticle
    /\ tweet_time = Unbound
    /\ height = 0
    /\ initial_height = 0
    /\ new_height = 0
    /\ attempt = 0
    /\ scroll_cmds = <<>>
    /\ scroll_result = None
    /\ exc = None
    /\ log = {}
    /\ snapshots = <<>>
    /\ result = <<>>
    /\ quit_count = 0
    /\ scroll_calls = 0
    /\ passes_in_iter = 0
    /\ pass_base = 0
    /\ nogrowth_passes = 0
    /\ nogrowth_primary = 0
    /\ lookup = "none"
    /\ cookie_file = "present"
    /\ cookies = <<>>
    /\ page_loads = SetupLoads

(* ------------------- collect_articles (lines 139-164) ------------------ *)
\* the call statement: self.collect_articles() at line 192 or 209
CallCollect(kind) ==
    /\ pc' = "collect_wait"
    /\ pass_kind' = kind
    /\ passes_in_iter' = IF kind = "primary" THEN 1 ELSE passes_in_iter + 1
    /\ UNCHANGED <<pass_base, nogrowth_passes, nogrowth_primary, lookup>>

\* lines 141-142 with wait_for_elements (96-104): the wait returns n elements; a
\* TimeoutException gives [] (line 104); any other error is caught at line 163 and
\* logged, and the pass is over
CollectWait ==
    /\ pc = "collect_wait"
    /\ pass_base' = Len(article_htmls)
    /\ tweet_time' = Unbound
    /\ article' = NoArticle
    /\ \/ \E n \in 1..MaxElems :
            /\ remaining' = n
            /\ pc' = "collect_elem"
            /\ lookup' = "found"
            /\ UNCHANGED log
       \/ /\ remaining' = 0                      \* timeout: empty list
          /\ pc' = "collect_return"
          /\ lookup' = "timeout"
          /\ UNCHANGED log
       \/ /\ remaining' = 0                      \* surface unreachable
          /\ pc' = "collect_return"
          /\ lookup' = "error"
          /\ log' = log \cup {"Error collecting articles"}
    /\ UNCHANGED <<article_htmls, setupVars, argVars, loopVars, pass_kind, scrollVars, endVars,
                   scroll_calls, passes_in_iter, nogrowth_passes, nogrowth_primary>>

\* lines 149-154: the identity key of an element that was read
KeyOf(e) == IF e.time # NoTime THEN e.time ELSE e.html

\* lines 149-151: tweet_time after the time lookup of element e
TweetTimeAfter(e, tt) == IF e.time # NoTime THEN e.time ELSE tt

\* one iteration of the for loop, lines 143-162, on element e of `articles`
CollectElem ==
    /\ pc = "collect_elem"
    /\ \E e \in Elements :
        /\ article' = e
        /\ IF e.fault = "error"
           THEN \* caught by the outer handler, line 163: the loop is abandoned
                /\ log' = log \cup {"Error collecting articles"}
                /\ remaining' = 0
                /\ pc' = "collect_return"
                /\ UNCHANGED <<article_htmls, tweet_time>>
           ELSE /\ remaining' = remaining - 1
                /\ pc' = IF remaining = 1 THEN "collect_return" ELSE "collect_elem"
                /\ UNCHANGED log
                /\ IF e.fault = "stale" \/ e.html = ""
                   THEN UNCHANGED <<article_htmls, tweet_time>>      \* continue
                   ELSE /\ tweet_time' = TweetTimeAfter(e, tweet_time)
                        /\ article_htmls' = Insert(article_htmls, KeyOf(e), e.html,
                                                   TimestampOf(tweet_time'))
    /\ UNCHANGED <<setupVars, argVars, loopVars, pass_kind, scrollVars, endVars,
                   scroll_calls, passHist, lookup>>

\* collect_articles returns (it returns no value and raises nothing)
CollectReturn ==
    /\ pc = "collect_return"
    /\ pc' = IF pass_kind = "primary" THEN "screenshot" ELSE "final_check"
    /\ remaining' = 0
    /\ article' = NoArticle
    /\ tweet_time' = Unbound
    /\ LET added == Len(article_htmls) > pass_base IN
        /\ nogrowth_passes' = IF added THEN 0 ELSE nogrowth_passes + 1
        /\ nogrowth_primary' = IF pass_kind # "primary" THEN nogrowth_primary
                               ELSE IF added THEN 0 ELSE nogrowth_primary + 1
    /\ pass_base' = 0
    /\ UNCHANGED <<article_htmls, setupVars, argVars, loopVars, pass_kind, scrollVars, endVars, log,
                   scroll_calls, passes_in_iter, lookup>>

(* --------------------- scroll_page (lines 106-137) --------------------- *)
\* lines 114-118
scroll_amounts ==
    <<scroll_pixel_increment, scroll_pixel_increment * 2, scroll_pixel_increment \div 2>>

\* the surface while the driver sleeps: lazy loading may or may not extend it
Settle == {height} \cup (IF height < MaxHeight THEN {height + 1} ELSE {})

\* execute_script fails (session lost): the error leaves scroll_page and is caught
\* by scrape's handler at line 219
ScrollRaise ==
    /\ exc' = "scroll_page"
    /\ pc' = "except"
    /\ UNCHANGED <<height, initial_height, new_height, attempt, scroll_cmds, scroll_result>>

\* line 205 calls scroll_page; line 111 records the extent at entry
ScrollEnter ==
    /\ pc = "scroll_enter"
    /\ scroll_calls' = scroll_calls + 1
    /\ \/ /\ initial_height' = height
          /\ new_height' = 0
          /\ attempt' = 1
          /\ scroll_cmds' = <<>>
          /\ scroll_result' = None
          /\ pc' = "scroll_by"
          /\ UNCHANGED <<height, exc>>
       \/ ScrollRaise
    /\ UNCHANGED <<article_htmls, setupVars, argVars, loopVars, collectVars, log, snapshots, result,
                   quit_count, driver, passHist, lookup>>

\* lines 122-123: window.scrollBy(0, scroll_amount), then sleep
ScrollBy ==
    /\ pc = "scroll_by"
    /\ \/ /\ scroll_cmds' = Append(scroll_cmds, scroll_amounts[attempt])
          /\ height' \in Settle
          /\ pc' = "scroll_measure"
          /\ UNCHANGED <<initial_height, new_height, attempt, scroll_result, exc>>
       \/ ScrollRaise
    /\ UNCHANGED <<article_htmls, setupVars, argVars, loopVars, collectVars, log, snapshots, result,
                   quit_count, driver, scroll_calls, passHist, lookup>>

\* line 127
Grew(new, initial) == new > initial

\* lines 126-128: measure the extent; return True when it grew
ScrollMeasure ==
    /\ pc = "scroll_measure"
    /\ new_height' = height
    /\ IF Grew(new_height', initial_height)
       THEN /\ scroll_result' = "True"
            /\ pc' = "scroll_ret"
       ELSE /\ pc' = "scroll_dispatch"
            /\ UNCHANGED scroll_result
    /\ UNCHANGED <<article_htmls, setupVars, argVars, loopVars, collectVars, height, initial_height,
                   attempt, scroll_cmds, endVars, log, scroll_calls, passHist, lookup>>

\* mutant of MoreAmounts: the loop stops after scroll_attempt_limit attempts
MoreAmounts_Limit(i) ==
    i < (IF scroll_attempt_limit < 3 THEN scroll_attempt_limit ELSE 3)

\* line 120: the for loop has another amount to try
MoreAmounts(i) == i < Len(scroll_amounts)

\* lines 131-135: dispatch the synthetic scroll and wheel events, sleep one second;
\* then the next amount (line 120) or, after the last one, return False (line 137)
ScrollDispatch ==
    /\ pc = "scroll_dispatch"
    /\ height' \in Settle
    /\ IF MoreAmounts(attempt)
       THEN /\ attempt' = attempt + 1
            /\ pc' = "scroll_by"
            /\ UNCHANGED scroll_result
       ELSE /\ scroll_result' = "False"
            /\ pc' = "scroll_ret"
            /\ UNCHANGED attempt
    /\ UNCHANGED <<article_htmls, setupVars, argVars, loopVars, collectVars, initial_height,
                   new_height, scroll_cmds, endVars, log, scroll_calls, passHist, lookup>>

(* ------------------------ scrape (lines 176-230) ----------------------- *)
\* lines 180-184
Start ==
    /\ pc = "start"
    /\ scroll_count' = 0
    /\ no_new_content_count' = 0
    /\ pc' = "loop_top"
    /\ UNCHANGED <<article_htmls, setupVars, argVars, prev_count, collectVars, scrollVars, endVars,
                   log, scroll_calls, passHist, lookup>>

\* mutant of BoundReached: the loop runs one iteration past the bound
BoundReached_OffByOne(ms, sc) == ms # <<>> /\ ms[1] # 0 /\ sc > ms[1]

\* line 187: `max_scrolls and scroll_count >= max_scrolls` (None and 0 are falsy)
BoundReached(ms, sc) == ms # <<>> /\ ms[1] # 0 /\ sc >= ms[1]

\* lines 187-192: the bound test, then prev_count and the primary pass
LoopTop ==
    /\ pc = "loop_top"
    /\ IF BoundReached(max_scrolls, scroll_count)
       THEN /\ pc' = "save"
            /\ UNCHANGED <<prev_count, pass_kind, passHist, lookup>>
       ELSE /\ prev_count' = Len(article_htmls)
            /\ CallCollect("primary")
    /\ UNCHANGED <<article_htmls, setupVars, argVars, scroll_count, no_new_content_count, remaining,
                   article, tweet_time, scrollVars, endVars, log, scroll_calls>>

\* lines 194-195: save_screenshot may fail; the error goes to the handler at line 219
Screenshot ==
    /\ pc = "screenshot"
    /\ \/ /\ pc' = "check"
          /\ UNCHANGED exc
       \/ /\ save_screenshots
          /\ exc' = "save_screenshot"
          /\ pc' = "except"
    /\ UNCHANGED <<article_htmls, setupVars, argVars, loopVars, collectVars, scrollVars, log,
                   snapshots, result, quit_count, driver, scroll_calls, passHist, lookup>>

\* mutant of StagnationReached: > for >=
StagnationReached_Strict(count, retries) == count > retries

\* line 199
StagnationReached(count, retries) == count >= retries

\* mutant of NoGrowth: `if prev_count and len(...) == prev_count`
NoGrowth_Truthy(size, prev) == prev # 0 /\ size = prev

\* line 197
NoGrowth(size, prev) == size = prev

\* mutant of NextCount: the counter starts from zero in every iteration
NextCount_FromZero(count, nogrowth) == IF nogrowth THEN 1 ELSE 0

\* mutant of NextCount: the else branch (line 203) is missing
NextCount_NoReset(count, nogrowth) == IF nogrowth THEN count + 1 ELSE count

\* lines 198 and 203
NextCount(count, nogrowth) == IF nogrowth THEN count + 1 ELSE 0

\* lines 197-203
Check ==
    /\ pc = "check"
    /\ LET nogrowth == NoGrowth(Len(article_htmls), prev_count) IN
        /\ no_new_content_count' = NextCount(no_new_content_count, nogrowth)
        /\ pc' = IF nogrowth /\ StagnationReached(no_new_content_count',
                                                  new_content_retries)
                 THEN "save" ELSE "scroll_enter"
    /\ lookup' = "none"
    /\ UNCHANGED <<article_htmls, setupVars, argVars, scroll_count, prev_count, collectVars,
                   scrollVars, endVars, log, scroll_calls, passHist>>

\* lines 205-209 and 214: scroll_page has returned; on False the final-check pass is
\* called, on True the iteration ends with scroll_count += 1
AfterScroll ==
    /\ pc = "scroll_ret"
    /\ IF scroll_result = "False"
       THEN /\ CallCollect("final")
            /\ UNCHANGED scroll_count
       ELSE /\ scroll_count' = scroll_count + 1
            /\ pc' = "loop_top"
            /\ UNCHANGED <<pass_kind, passHist, lookup>>
    /\ initial_height' = 0
    /\ new_height' = 0
    /\ attempt' = 0
    /\ scroll_cmds' = <<>>
    /\ scroll_result' = None
    /\ UNCHANGED <<article_htmls, setupVars, argVars, no_new_content_count, prev_count, remaining,
                   article, tweet_time, height, endVars, log, scroll_calls>>

\* mutant of FinalCheckStop: break whenever the scroll reported no progress
FinalCheckStop_Always(size, prev) == TRUE

\* line 210
FinalCheckStop(size, prev) == size = prev

\* lines 210-215, after the final-check pass
FinalCheck ==
    /\ pc = "final_check"
    /\ IF FinalCheckStop(Len(article_htmls), prev_count)
       THEN /\ pc' = "save"
            /\ UNCHANGED scroll_count
       ELSE /\ scroll_count' = scroll_count + 1
            /\ pc' = "loop_top"
    /\ lookup' = "none"
    /\ UNCHANGED <<article_htmls, setupVars, argVars, no_new_content_count, prev_count, collectVars,
                   scrollVars, endVars, log, scroll_calls, passHist>>

\* line 217 with save_progress (166-174): one file holding every entry of the store
\* in insertion order; open() fails when ./output is missing or not writable
Save ==
    /\ pc = "save"
    /\ \/ /\ snapshots' = Append(snapshots, article_htmls)
          /\ pc' = "finally"
          /\ UNCHANGED exc
       \/ /\ exc' = "save_progress"
          /\ pc' = "except"
          /\ UNCHANGED snapshots
    /\ UNCHANGED <<article_htmls, setupVars, argVars, loopVars, collectVars, scrollVars, log, result,
                   quit_count, driver, scroll_calls, passHist, lookup>>

\* mutant of Reraise: the handler logs and does not raise
Reraise_Swallow(e) == None

\* line 221: a bare `raise` re-raises the exception that was caught
Reraise(e) == e

\* lines 219-221: log the error and re-raise it
Except ==
    /\ pc = "except"
    /\ log' = log \cup {"Scraping error"}
    /\ exc' = Reraise(exc)
    /\ pc' = "finally"
    /\ UNCHANGED <<article_htmls, setupVars, argVars, loopVars, collectVars, scrollVars, snapshots,
                   result, quit_count, driver, scroll_calls, passHist, lookup>>

\* mutant of ShouldQuit: quit only on the success path (quit inside the try block)
ShouldQuit_OnSuccessOnly(d) == d # "none" /\ exc = None

\* line 223: `if self.driver` (the object stays truthy after quit)
ShouldQuit(d) == d # "none"

\* lines 222-224, then the exception in flight leaves scrape or line 226 is reached
Finally ==
    /\ pc = "finally"
    /\ IF ShouldQuit(driver)
       THEN /\ driver' = "quit"
            /\ quit_count' = quit_count + 1
       ELSE UNCHANGED <<driver, quit_count>>
    /\ pc' = IF exc # None THEN "raised" ELSE "sort"
    /\ UNCHANGED <<article_htmls, setupVars, argVars, loopVars, collectVars, scrollVars, exc, log,
                   snapshots, result, scroll_calls, passHist, lookup>>

\* line 228: the sort key, `x['timestamp'] if x['timestamp'] else ''`; the rank is
\* the position of the key in Python's string order: '' < 't1' < 't2'
SortRank(entry) ==
    CASE entry.timestamp = None -> 0
      [] entry.timestamp = "t1" -> 1
      [] entry.timestamp = "t2" -> 2

\* mutant of InsertSorted: x goes before the elements of equal rank (unstable sort)
RECURSIVE InsertSorted_Unstable(_, _)
InsertSorted_Unstable(sorted, x) ==
    IF sorted = <<>> THEN <<x>>
    ELSE IF SortRank(sorted[Len(sorted)]) < SortRank(x) THEN Append(sorted, x)
    ELSE Append(InsertSorted_Unstable(SubSeq(sorted, 1, Len(sorted) - 1), x),
                sorted[Len(sorted)])

\* place x after every element of the sorted sequence whose rank is <= its own
RECURSIVE InsertSorted(_, _)
InsertSorted(sorted, x) ==
    IF sorted = <<>> THEN <<x>>
    ELSE IF SortRank(sorted[Len(sorted)]) <= SortRank(x) THEN Append(sorted, x)
    ELSE Append(InsertSorted(SubSeq(sorted, 1, Len(sorted) - 1), x), sorted[Len(sorted)])

\* lines 226-229: sorted() is stable
RECURSIVE Sorted(_)
Sorted(entries) ==
    IF entries = <<>> THEN <<>>
    ELSE InsertSorted(Sorted(SubSeq(entries, 1, Len(entries) - 1)), entries[Len(entries)])

\* mutant of ResultOf: fragments without a timestamp are left out
ResultOf_TimedOnly(entries) ==
    LET timed == SelectSeq(entries, LAMBDA x : x.timestamp # None)
    IN  [i \in 1..Len(timed) |-> timed[i].html]

\* line 230: [article['html'] for article in self.sorted_articles]
ResultOf(entries) == [i \in 1..Len(entries) |-> entries[i].html]

\* lines 226-230
Sort ==
    /\ pc = "sort"
    /\ result' = ResultOf(Sorted(article_htmls))
    /\ pc' = "returned"
    /\ UNCHANGED <<article_htmls, setupVars, argVars, loopVars, collectVars, scrollVars, exc, log,
                   snapshots, quit_count, driver, scroll_calls, passHist, lookup>>

Next ==
    \/ Start
    \/ LoopTop
    \/ CollectWait
    \/ CollectElem
    \/ CollectReturn
    \/ Screenshot
    \/ Check
    \/ ScrollEnter
    \/ ScrollBy
    \/ ScrollMeasure
    \/ ScrollDispatch
    \/ AfterScroll
    \/ FinalCheck
    \/ Save
    \/ Except
    \/ Finally
    \/ Sort

Spec == Init /\ [][Next]_vars

(* ------------- scroll_page alone, over its configurations -------------- *)
\* values of scroll_pixel_increment: odd and even, and the default
Increments == {1, 7, DefaultScrollPixelIncrement}

\* scrape has reached line 205 for the first time (the first primary pass located
\* nothing, new_content_retries = 2); the scroll settings and the extent of the
\* surface are arbitrary
ScrollInit ==
    /\ pc = "scroll_enter"
    /\ article_htmls = <<>>
    /\ driver = "open"
    /\ max_scrolls = <<>>
    /\ save_screenshots = FALSE
    /\ new_content_retries = 2
    /\ scroll_attempt_limit \in 1..MaxAttemptLimit
    /\ scroll_pixel_increment \in Increments
    /\ scroll_count = 0
    /\ no_new_content_count = 1
    /\ prev_count = 0
    /\ pass_kind = "primary"
    /\ remaining = 0
    /\ article = NoArticle
    /\ tweet_time = Unbound
    /\ height \in 0..MaxHeight
    /\ initial_height = 0
    /\ new_height = 0
    /\ attempt = 0
    /\ scroll_cmds = <<>>
    /\ scroll_result = None
    /\ exc = None
    /\ log = {}
    /\ snapshots = <<>>
    /\ result = <<>>
    /\ quit_count = 0
    /\ scroll_calls = 0
    /\ passes_in_iter = 1
    /\ pass_base = 0
    /\ nogrowth_passes = 1
    /\ nogrowth_primary = 1
    /\ lookup = "none"
    /\ cookie_file = "present"
    /\ cookies = <<>>
    /\ page_loads = SetupLoads

NextScroll ==
    \/ ScrollEnter
    \/ ScrollBy
    \/ ScrollMeasure
    \/ ScrollDispatch

SpecScroll == ScrollInit /\ [][NextScroll]_vars

(* --------------- scrape with no max_scrolls, under fairness ------------- *)
\* The surface between two scroll_page calls: the timeline is virtualised, so the
\* extent can drop again. scroll_page compares the extent only with the value it
\* recorded at its own entry, so with this step a Scroll Driver can report progress
\* in every call, for ever.
SurfaceShrinks ==
    /\ pc = "loop_top"
    /\ height > 0
    /\ height' = height - 1
    /\ UNCHANGED <<pc, article_htmls, setupVars, argVars, loopVars, collectVars, initial_height,
                   new_height, attempt, scroll_cmds, scroll_result, endVars, log,
                   scroll_calls, passHist, lookup>>

\* scrape(max_scrolls=None, save_screenshots=False, ...), as app.py calls it
LiveInit == Init /\ max_scrolls = <<>> /\ save_screenshots = FALSE

NextLive == Next \/ SurfaceShrinks

\* every call the program makes returns or raises, so the program always takes its
\* next step; the surface is under no obligation
SpecLive == LiveInit /\ [][NextLive]_vars /\ WF_vars(Next)

(* --------------- the sort of lines 226-230, over stores ---------------- *)
\* time markers of the stores that are sorted
SortTimes == {"t1", "t2"}

\* entries collect_articles can insert: keyed by a time marker (lines 150-152), or
\* keyed by their own content (line 154) with no timestamp or a carried-over one
SortEntries ==
    {[key |-> t, html |-> "h1", timestamp |-> t] : t \in SortTimes}
    \cup {[key |-> h, html |-> h, timestamp |-> ts] : h \in Htmls, ts \in {None} \cup SortTimes}

\* the stores the passes can build: keys are distinct (line 156), and a content-keyed
\* entry carries a timestamp only if that time marker was read before it (line 159)
SortStores ==
    {st \in UNION {[1..n -> SortEntries] : n \in 0..MaxStore} :
        /\ \A i, j \in 1..Len(st) : st[i].key = st[j].key => i = j
        /\ \A i \in 1..Len(st) :
              (st[i].key \in Htmls /\ st[i].timestamp # None)
                  => \E j \in 1..(i - 1) : st[j].key = st[i].timestamp}

\* scrape has reached line 226: the loop ended by stagnation, the snapshot is written
\* and the session is closed
SortInit ==
    /\ pc = "sort"
    /\ article_htmls \in SortStores
    /\ driver = "quit"
    /\ max_scrolls = <<>>
    /\ save_screenshots = FALSE
    /\ new_content_retries = 1
    /\ scroll_attempt_limit = DefaultScrollAttemptLimit
    /\ scroll_pixel_increment = DefaultScrollPixelIncrement
    /\ scroll_count = 1
    /\ no_new_content_count = 1
    /\ prev_count = Len(article_htmls)
    /\ pass_kind = "primary"
    /\ remaining = 0
    /\ article = NoArticle
    /\ tweet_time = Unbound
    /\ height = 0
    /\ initial_height = 0
    /\ new_height = 0
    /\ attempt = 0
    /\ scroll_cmds = <<>>
    /\ scroll_result = "True"
    /\ exc = None
    /\ log = {}
    /\ snapshots = <<article_htmls>>
    /\ result = <<>>
    /\ quit_count = 1
    /\ scroll_calls = 1
    /\ passes_in_iter = 1
    /\ pass_base = 0
    /\ nogrowth_passes = 1
    /\ nogrowth_primary = 1
    /\ lookup = "none"
    /\ cookie_file = "present"
    /\ cookies = <<>>
    /\ page_loads = SetupLoads

NextSort == Sort

SpecSort == SortInit /\ [][NextSort]_vars

(* ------ the application's run: setup_driver, load_cookies, scrape ------ *)
\* the cookie files: up to MaxCookies cookies, none of them handed to the session yet
CookieFiles == {[i \in 1..n |-> "pending"] : n \in 0..MaxCookies}

\* app.py line 16: the Scrape button is pressed on a fresh TwitterScraper (self.driver
\* is None, line 44); line 19 calls scrape(save_screenshots=False) with the defaults
\* of line 176
RunInit ==
    /\ pc = "app_start"
    /\ article_htmls = <<>>
    /\ driver = "none"
    /\ max_scrolls = <<>>
    /\ save_screenshots = FALSE
    /\ new_content_retries = DefaultNewContentRetries
    /\ scroll_attempt_limit = DefaultScrollAttemptLimit
    /\ scroll_pixel_increment = DefaultScrollPixelIncrement
    /\ scroll_count = 0
    /\ no_new_content_count = 0
    /\ prev_count = 0
    /\ pass_kind = "primary"
    /\ remaining = 0
    /\ article = NoArticle
    /\ tweet_time = Unbound
    /\ height = 0
    /\ initial_height = 0
    /\ new_height = 0
    /\ attempt = 0
    /\ scroll_cmds = <<>>
    /\ scroll_result = None
    /\ exc = None
    /\ log = {}
    /\ snapshots = <<>>
    /\ result = <<>>
    /\ quit_count = 0
    /\ scroll_calls = 0
    /\ passes_in_iter = 0
    /\ pass_base = 0
    /\ nogrowth_passes = 0
    /\ nogrowth_primary = 0
    /\ lookup = "none"
    /\ cookie_file \in {"missing", "present"}
    /\ cookies \in (IF cookie_file = "missing" THEN {<<>>} ELSE CookieFiles)
    /\ page_loads = <<>>

\* what the setup steps leave alone
runRest == <<article_htmls, argVars, loopVars, collectVars, scrollVars, snapshots, result,
             quit_count, scroll_calls, passHist, lookup>>

\* app.py line 17, setup_driver (lines 65-78): the browser starts and loads the search
\* page; webdriver.Chrome (line 75) or get (line 78) may raise, and nothing catches it
SetupDriver ==
    /\ pc = "app_start"
    /\ \/ /\ driver' = "open"
          /\ page_loads' = Append(page_loads, "get")
          /\ pc' = "load_cookies"
          /\ UNCHANGED exc
       \/ /\ exc' = "setup_driver"
          /\ pc' = "app_raised"
          /\ UNCHANGED <<driver, page_loads>>
       \/ /\ driver' = "open"
          /\ exc' = "setup_driver"
          /\ pc' = "app_raised"
          /\ UNCHANGED page_loads
    /\ UNCHANGED <<cookie_file, cookies, log, runRest>>

\* mutant of FileFound: open() succeeds whether or not the file exists
FileFound_Always(f) == TRUE

\* line 83: open(cookie_file, 'r') raises FileNotFoundError unless the file exists
FileFound(f) == f = "present"

\* app.py line 18, load_cookies lines 82-84 and 92-94: the file is read, or the error
\* is logged and raised again
OpenCookies ==
    /\ pc = "load_cookies"
    /\ IF FileFound(cookie_file)
       THEN /\ pc' = "add_cookie"
            /\ UNCHANGED <<log, exc>>
       ELSE /\ log' = log \cup {"Cookie file not found"}
            /\ exc' = "FileNotFoundError"
            /\ pc' = "app_raised"
    /\ UNCHANGED <<driver, setupVars, runRest>>

\* the cookies of the file the for loop of line 85 has not reached
Pending == {i \in 1..Len(cookies) : cookies[i] = "pending"}

\* lines 85-89: the next cookie is added, or add_cookie raises and a warning is logged
AddCookie ==
    /\ pc = "add_cookie"
    /\ Pending # {}
    /\ LET i == CHOOSE k \in Pending : \A j \in Pending : k <= j IN
        \/ /\ cookies' = [cookies EXCEPT ![i] = "added"]
           /\ UNCHANGED log
        \/ /\ cookies' = [cookies EXCEPT ![i] = "rejected"]
           /\ log' = log \cup {"Failed to add cookie"}
    /\ UNCHANGED <<pc, driver, exc, cookie_file, page_loads, runRest>>

\* lines 90-91: refresh, then get; an error of the session is no FileNotFoundError
\* and leaves load_cookies
ReloadPage ==
    /\ pc = "add_cookie"
    /\ Pending = {}
    /\ \/ /\ page_loads' = page_loads \o <<"refresh", "get">>
          /\ pc' = "start"
          /\ UNCHANGED exc
       \/ /\ exc' = "load_cookies"
          /\ pc' = "app_raised"
          /\ UNCHANGED page_loads
    /\ UNCHANGED <<driver, cookie_file, cookies, log, runRest>>

\* app.py lines 17-19
NextRun ==
    \/ SetupDriver
    \/ OpenCookies
    \/ AddCookie
    \/ ReloadPage
    \/ Next

SpecRun == RunInit /\ [][NextRun]_vars

(* ============================== claims ================================= *)
\* the Collection Loop is TERMINATED: the while loop has been left
Terminated == pc \in {"save", "except", "finally", "sort", "returned", "raised"}

\* scrape is over: it returned or raised
Exited == pc \in {"returned", "raised"}

\* C1 (as claimed): once new_content_retries consecutive Observer passes, final-check
\* passes included, have each added nothing, the loop is TERMINATED by the decision
\* that follows the last of them (it is not scrolling, looping or observing again).
C1_AnyPassStagnationTerminates ==
    nogrowth_passes >= new_content_retries
        => (Terminated \/ pc \in {"screenshot", "check", "final_check"})

\* C1 (amended): once new_content_retries consecutive primary passes (the first
\* collect_articles call of an iteration) have each added nothing, the loop is
\* TERMINATED by the decision that follows the last of them, whatever scroll_page
\* returned and whatever the final-check passes in between found.
C1_PrimaryStagnationTerminates ==
    nogrowth_primary >= new_content_retries
        => (Terminated \/ pc \in {"screenshot", "check"})

\* C1 witness: the retry limit 2 was reached by primary passes after the store had
\* grown and the Scroll Driver had been called.
C1_Witness ==
    /\ pc = "save"
    /\ new_content_retries = 2
    /\ nogrowth_primary = 2
    /\ scroll_calls >= 2
    /\ Len(article_htmls) >= 1

\* C2 (as claimed): when scrape has returned or raised for any reason other than a
\* failed snapshot write, a snapshot equal to the store has been written.
C2_SnapshotOnEveryExit ==
    (Exited /\ exc # "save_progress")
        => (Len(snapshots) >= 1 /\ snapshots[Len(snapshots)] = article_htmls)

\* C3: driver.quit is never called twice, and when scrape reaches its sort, returns
\* or raises, the session that was open at the start has been quit exactly once.
C3_SessionTornDownOnce ==
    /\ quit_count <= 1
    /\ (Exited \/ pc = "sort") => (quit_count = 1 /\ driver = "quit")

\* C3 witness: scrape raised because the snapshot write failed, the session quit.
C3_Witness == pc = "raised" /\ exc = "save_progress" /\ quit_count = 1

\* C4 (as claimed): after an error raised in an Observer pass, a Scroll Driver call or
\* the screenshot step, scrape never returns a result sequence.
C4_AnyLoopErrorSurfaces ==
    pc = "returned"
        => ("Error collecting articles" \notin log /\ exc = None)

\* the state part of C4 (amended)
C4_SurfacedState ==
    /\ exc \in {"scroll_page", "save_screenshot"} => pc \in {"except", "finally", "raised"}
    /\ (exc # None /\ pc \in {"finally", "raised"}) => "Scraping error" \in log
    /\ pc = "raised" => (exc # None /\ driver = "quit" /\ result = <<>>)
    /\ pc \in {"sort", "returned"} => exc = None
    /\ pc \in {"collect_wait", "collect_elem", "collect_return"} => exc = None

\* C4 (amended): an error raised by a Scroll Driver call or by the screenshot step
\* goes to scrape's handler, is logged, the session is quit, and that same error
\* leaves scrape (it is never replaced or cleared, and no result is returned); an
\* error raised inside an Observer pass is logged by collect_articles and raises
\* nothing in scrape.
C4_DriverErrorSurfaces ==
    /\ []C4_SurfacedState
    /\ [][(exc # None => exc' = exc)
          /\ (("Error collecting articles" \in log' /\ "Error collecting articles" \notin log)
                => (exc' = None /\ pc' = "collect_return"))]_vars

\* C4 witness: a failed screenshot reached the caller after logging and teardown.
C4_Witness ==
    /\ pc = "raised"
    /\ exc = "save_screenshot"
    /\ "Scraping error" \in log
    /\ driver = "quit"

\* C5 (as claimed): with max_scrolls = N for any non-negative integer N, scroll_page
\* is invoked at most N times.
C5_ScrollCallsWithinBound ==
    max_scrolls # <<>> => scroll_calls <= max_scrolls[1]

\* C6: after scroll_page returns False exactly one more Observer pass runs (the
\* second of the iteration); the decision after it leaves the loop iff the store size
\* equals prev_count, and otherwise the loop goes on with scroll_count + 1. After
\* scroll_page returns True no further pass runs in the iteration.
C6_FinalCheckDecides ==
    /\ [](/\ passes_in_iter <= 2
          /\ pc = "final_check" => (passes_in_iter = 2 /\ pass_kind = "final"))
    /\ [][/\ (pc = "scroll_ret" /\ scroll_result = "False")
                => (pc' = "collect_wait" /\ pass_kind' = "final"
                    /\ passes_in_iter' = passes_in_iter + 1)
          /\ (pc = "scroll_ret" /\ scroll_result = "True")
                => (pc' = "loop_top" /\ passes_in_iter' = passes_in_iter)
          /\ (pc = "final_check" /\ Len(article_htmls) = prev_count)
                => (pc' = "save" /\ scroll_count' = scroll_count)
          /\ (pc = "final_check" /\ Len(article_htmls) # prev_count)
                => (pc' = "loop_top" /\ scroll_count' = scroll_count + 1)
          /\ (pc \notin {"loop_top", "start"} => prev_count' = prev_count)]_vars

\* C6 witness: a final check found the store larger than prev_count and the loop
\* went on to its next iteration.
C6_Witness ==
    /\ pc = "loop_top"
    /\ passes_in_iter = 2
    /\ scroll_count >= 1
    /\ Len(article_htmls) > prev_count

\* C7: no step removes a key from the store or makes it smaller, failed and
\* timed-out passes included.
C7_StoreOnlyGrows ==
    [][/\ Len(article_htmls') >= Len(article_htmls)
       /\ Keys(article_htmls) \subseteq Keys(article_htmls')]_vars

\* C7 witness: the store holds two fragments after a pass failed.
C7_Witness ==
    /\ Len(article_htmls) >= 2
    /\ "Error collecting articles" \in log
    /\ pc = "collect_return"

\* C8: no step changes or moves an entry of the store, and a pass step on an element
\* whose key is already stored leaves the store as it is.
C8_FirstSeenWins ==
    [][/\ \A i \in 1..Len(article_htmls) :
            i <= Len(article_htmls') /\ article_htmls'[i] = article_htmls[i]
       /\ (pc = "collect_elem" /\ article'.fault = "none" /\ article'.html # ""
             /\ Contains(article_htmls, KeyOf(article')))
                => article_htmls' = article_htmls]_vars

\* C8 witness: a pass has just read an element whose time marker is a stored key and
\* whose content differs from the stored content.
C8_Witness ==
    /\ pc \in {"collect_elem", "collect_return"}
    /\ article.fault = "none"
    /\ article.time # NoTime
    /\ \E i \in 1..Len(article_htmls) :
          article_htmls[i].key = article.time /\ article_htmls[i].html # article.html

\* C9 (as claimed): the fragment a pass step inserts for element e has key e.html and
\* timestamp None when e has no time marker, and key and timestamp equal to the
\* marker's value when it has one.
C9_KeyAndTimestampOfElement ==
    [][article_htmls' # article_htmls =>
         LET e == article'
             new == article_htmls'[Len(article_htmls')]
         IN  IF e.time = NoTime
             THEN new.key = e.html /\ new.timestamp = None
             ELSE new.key = e.time /\ new.timestamp = e.time]_vars

\* the amounts C10 names: baseline, doubled, halved
C10_Amounts ==
    <<scroll_pixel_increment, 2 * scroll_pixel_increment, scroll_pixel_increment \div 2>>

\* the state part of C10
C10_CallState ==
    /\ Len(scroll_cmds) <= 3
    /\ \A i \in 1..Len(scroll_cmds) : scroll_cmds[i] = C10_Amounts[i]
    /\ scroll_result = "True" => (new_height > initial_height /\ Len(scroll_cmds) >= 1)
    /\ scroll_result = "False" => (new_height <= initial_height /\ Len(scroll_cmds) = 3)
    /\ pc \in {"scroll_dispatch", "scroll_by"} => new_height <= initial_height

\* C10: a scroll_page call issues at most three scrollBy commands, the baseline, the
\* doubled and the halved increment in this order; a measurement above the extent at
\* entry makes it return True at once with no further command; it returns False only
\* after three attempts none of which measured growth; a returned value is not
\* returned again; all of it for every scroll_attempt_limit.
C10_ScrollAttempts ==
    /\ []C10_CallState
    /\ [][/\ (pc = "scroll_measure" /\ height > initial_height)
                => (pc' = "scroll_ret" /\ scroll_result' = "True"
                    /\ scroll_cmds' = scroll_cmds)
          /\ (pc = "scroll_dispatch" /\ Len(scroll_cmds) < 3)
                => (pc' = "scroll_by" /\ scroll_result' = None)
          /\ (scroll_result # None => scroll_result' \in {scroll_result, None})]_vars

\* C10 witness: three attempts failed under scroll_attempt_limit = 1 and an odd
\* increment, and the call returned False.
C10_Witness ==
    /\ pc = "scroll_ret"
    /\ scroll_result = "False"
    /\ scroll_attempt_limit = 1
    /\ scroll_pixel_increment = 7
    /\ scroll_cmds = <<7, 14, 3>>

\* C11 (as claimed): scroll_page returns False only while the extent is not above the
\* extent recorded at entry (growth that follows the synthetic events is detected).
C11_NoProgressMeansNoGrowth ==
    (pc = "scroll_ret" /\ scroll_result = "False") => height <= initial_height

\* the keys the surface can present over a session
C12_SurfaceKeys == Times \cup Htmls

\* C12: with max_scrolls = None and any new_content_retries >= 1, over a surface that
\* presents finitely many keys, the loop of scrape is eventually TERMINATED, also
\* when scroll_page reports progress in every call; and it is left before
\* (keys + 1) * new_content_retries iterations have been completed.
C12_Converges ==
    /\ (max_scrolls = <<>>) ~> Terminated
    /\ [](max_scrolls = <<>>
            => scroll_count < (Cardinality(C12_SurfaceKeys) + 1) * new_content_retries)

\* C12 witness: the loop was left through the stagnation limit after three calls of
\* scroll_page that each reported progress (the extent had dropped in between).
C12_Witness ==
    /\ pc = "save"
    /\ scroll_count >= 3
    /\ scroll_calls = scroll_count
    /\ no_new_content_count >= new_content_retries

\* the lookup of the pass timed out (wait_for_elements gave []) or failed entirely
C13_LookupFailed == lookup \in {"timeout", "error"}

\* C13 (as claimed): every pass whose lookup timed out or failed is counted by the
\* loop's decision on it as a no-growth pass: the stagnation counter goes up by one.
C13_FailedLookupAlwaysCounted ==
    [][(pc \in {"check", "final_check"} /\ C13_LookupFailed)
          => no_new_content_count' = no_new_content_count + 1]_vars

\* C13 (amended): a pass whose lookup timed out or failed raises nothing and leaves
\* the store as it was; if it is the primary pass of the iteration the decision on it
\* raises the stagnation counter by one; if it is the final-check pass the counter is
\* left alone and the loop is left iff the store size equals prev_count.
C13_FailedLookupIsNoGrowth ==
    /\ []((pc = "collect_return" /\ C13_LookupFailed)
            => (Len(article_htmls) = pass_base /\ exc = None))
    /\ [][/\ (pc = "collect_wait" /\ lookup' \in {"timeout", "error"})
                => (article_htmls' = article_htmls /\ exc' = None
                    /\ pc' = "collect_return")
          /\ (pc = "collect_return" /\ C13_LookupFailed)
                => (article_htmls' = article_htmls /\ exc' = None
                    /\ pc' \in {"screenshot", "final_check"})
          /\ (pc = "check" /\ C13_LookupFailed)
                => no_new_content_count' = no_new_content_count + 1
          /\ (pc = "final_check" /\ C13_LookupFailed)
                => (/\ no_new_content_count' = no_new_content_count
                    /\ (pc' = "save") <=> (Len(article_htmls) = prev_count))]_vars

\* C13 witness: the loop is about to decide on a primary pass whose lookup timed out,
\* with fragments in the store and one no-growth pass already counted.
C13_Witness ==
    /\ pc = "check"
    /\ lookup = "timeout"
    /\ no_new_content_count = 1
    /\ Len(article_htmls) >= 1

\* C14: within one pass, an element whose extraction fails (it went stale, or it is
\* unreadable for another reason) is the only one skipped: nothing is inserted for
\* it, nothing is raised, and the elements located after it are still inspected.
C14_OnlyFailedElementSkipped ==
    [][(pc = "collect_elem" /\ article'.fault \in {"stale", "error"})
          => (/\ article_htmls' = article_htmls
              /\ exc' = None
              /\ remaining' = remaining - 1
              /\ pc' = IF remaining = 1 THEN "collect_return" ELSE "collect_elem")]_vars

\* the timestamp as the sort compares it: absent compares as the empty string
C15_SortKey(entry) == IF entry.timestamp = None THEN "" ELSE entry.timestamp

\* the order of the compared strings: '' before 't1' before 't2'
C15_Before(a, b) == <<a, b>> \in {<<"", "t1">>, <<"", "t2">>, <<"t1", "t2">>}

\* res lists the fragments of store, one per entry, by ascending timestamp, fragments
\* of equal timestamp in their store order
C15_StableAscending(store, res) ==
    /\ Len(res) = Len(store)
    /\ \E p \in [1..Len(store) -> 1..Len(store)] :
          /\ \A i, j \in 1..Len(store) : p[i] = p[j] => i = j
          /\ \A i \in 1..Len(store) : res[i] = store[p[i]].html
          /\ \A i, j \in 1..Len(store) :
                i < j => \/ C15_Before(C15_SortKey(store[p[i]]), C15_SortKey(store[p[j]]))
                         \/ /\ C15_SortKey(store[p[i]]) = C15_SortKey(store[p[j]])
                            /\ p[i] < p[j]

\* C15: after a normally terminated scrape the result is a permutation of the store's
\* entries in ascending timestamp order, an absent timestamp first, entries with equal
\* timestamps in their insertion order.
C15_ResultStableSorted ==
    pc = "returned" => C15_StableAscending(article_htmls, result)

\* C15 witness: a returned result whose store held two entries of equal timestamp
\* followed by an entry with an earlier timestamp.
C15_Witness ==
    /\ pc = "returned"
    /\ Len(article_htmls) = 3
    /\ article_htmls[1].timestamp = "t2"
    /\ article_htmls[2].timestamp = "t2"
    /\ article_htmls[3].timestamp = "t1"
    /\ result = <<"h1", "h1", "h2">>

\* the run is still in setup_driver or load_cookies, or left one of them by an error
C16_InSetup == pc \in {"app_start", "load_cookies", "add_cookie", "app_raised"}

\* C16: with the cookie file missing, load_cookies raises without adding a cookie and
\* without a refresh or reload, and the run has no observer pass and no scroll call;
\* with the file present, a cookie that cannot be added is logged and the loop goes on
\* to the next one, and setup ends with every cookie tried and the page reloaded.
C16_CookieLoading ==
    /\ [](cookie_file = "missing"
            => /\ pc \in {"app_start", "load_cookies", "app_raised"}
               /\ \A i \in 1..Len(cookies) : cookies[i] # "added"
               /\ page_loads \in {<<>>, <<"get">>}
               /\ passes_in_iter = 0
               /\ scroll_calls = 0
               /\ article_htmls = <<>>)
    /\ [](~C16_InSetup
            => /\ \A i \in 1..Len(cookies) : cookies[i] \in {"added", "rejected"}
               /\ page_loads = SetupLoads)
    /\ [][/\ (pc = "load_cookies" /\ cookie_file = "missing")
                => (/\ pc' = "app_raised"
                    /\ exc' = "FileNotFoundError"
                    /\ UNCHANGED <<cookies, page_loads>>)
          /\ (pc = "add_cookie" /\ cookies' # cookies)
                => (/\ pc' = "add_cookie"
                    /\ exc' = None
                    /\ Cardinality(Pending') = Cardinality(Pending) - 1
                    /\ \A i \in 1..Len(cookies) :
                          cookies[i] # "pending" => cookies'[i] = cookies[i])]_vars

\* C16 witness: setup is complete after the first cookie was refused and the second
\* one added.
C16_Witness ==
    /\ pc = "start"
    /\ cookies = <<"rejected", "added">>
    /\ "Failed to add cookie" \in log
    /\ page_loads = SetupLoads

\* C17: a run that ends with an error after the session was opened has torn the
\* session down.
C17_FailedRunReleasesSession ==
    (pc \in {"app_raised", "raised"} /\ driver # "none") => driver = "quit"

\* the loop has decided on every finished primary pass: it is not between the return
\* of a primary pass and line 197, and did not leave that stretch by an error
C18_Decided == pc \notin {"screenshot", "check"} /\ exc # "save_screenshot"

\* C18 (as claimed): the stagnation counter is the number of consecutive most recent
\* observer passes, primary or final-check, that added no fragment.
C18_CounterCountsAllPasses ==
    C18_Decided => no_new_content_count = nogrowth_passes

\* C18 (amended): the stagnation counter is the number of consecutive most recent
\* primary passes that added no fragment; a final-check pass does not change it; the
\* loop ends through the stagnation limit only when none of the last
\* new_content_retries primary passes added a fragment.
C18_CounterCountsPrimaryPasses ==
    /\ [](C18_Decided => no_new_content_count = nogrowth_primary)
    /\ [][/\ (pc = "check" /\ pc' = "save") => nogrowth_primary >= new_content_retries
          /\ (pass_kind = "final" /\ pc \in {"collect_wait", "collect_elem",
                                             "collect_return", "final_check"})
                => no_new_content_count' = no_new_content_count]_vars

\* C18 witness: the loop ended through the stagnation limit 2 although the
\* final-check pass between the two primary passes added a fragment.
C18_Witness ==
    /\ pc = "save"
    /\ new_content_retries = 2
    /\ no_new_content_count = 2
    /\ nogrowth_primary = 2
    /\ nogrowth_passes = 1
    /\ passes_in_iter = 1

\* res holds the fragments of entries, one per entry, in some order
SameFragments(res, entries) ==
    /\ Len(res) = Len(entries)
    /\ \E p \in [1..Len(entries) -> 1..Len(entries)] :
          /\ \A i, j \in 1..Len(entries) : p[i] = p[j] => i = j
          /\ \A i \in 1..Len(entries) : res[i] = entries[p[i]].html

\* the bound of max_scrolls = N >= 1 is met by the scroll count
C19_AtBound == max_scrolls # <<>> /\ max_scrolls[1] >= 1 /\ scroll_count >= max_scrolls[1]

\* C19: when the loop ends at the max-scroll bound after a scroll that reported
\* progress, no observer pass runs between that scroll and the snapshot: the store
\* changes only inside a pass, a pass starts only at the loop top below the bound or
\* after a scroll without progress, and the snapshot and the result hold the store as
\* the last pass before that scroll left it.
C19_LastScrollNotObserved ==
    /\ [][/\ article_htmls' # article_htmls => pc = "collect_elem"
          /\ passes_in_iter' # passes_in_iter
                => \/ pc = "loop_top" /\ ~C19_AtBound
                   \/ pc = "scroll_ret" /\ scroll_result = "False"
          /\ (pc = "scroll_ret" /\ scroll_result = "True")
                => (pc' = "loop_top" /\ scroll_count' = scroll_count + 1)
          /\ (pc = "loop_top" /\ C19_AtBound) => pc' = "save"
          /\ (pc = "save" /\ Len(snapshots') > Len(snapshots))
                => snapshots' = <<article_htmls>>]_vars
    /\ []((pc = "returned" /\ C19_AtBound /\ passes_in_iter = 1)
            => /\ snapshots = <<article_htmls>>
               /\ SameFragments(result, article_htmls)
               /\ scroll_calls = scroll_count)

\* C19 witness: scrape returned at the bound max_scrolls = 1 after one primary pass
\* that stored a fragment and one scroll that reported progress.
C19_Witness ==
    /\ pc = "returned"
    /\ max_scrolls = <<1>>
    /\ scroll_count = 1
    /\ scroll_calls = 1
    /\ passes_in_iter = 1
    /\ height = 1
    /\ Len(article_htmls) >= 1

\* C20: on a normal termination the snapshot is written, then the session is torn
\* down, then the result is sorted and returned: one snapshot per call, no observer
\* pass, scroll call or store change after it, and the result holds exactly the
\* fragments of the snapshot.
C20_SnapshotTeardownSort ==
    /\ [](/\ Len(snapshots) <= 1
          /\ Len(snapshots) = 1 => (pc \in {"finally", "sort", "returned"} /\ exc = None)
          /\ (pc = "finally" /\ exc = None)
                => (Len(snapshots) = 1 /\ result = <<>>)
          /\ pc = "sort"
                => (Len(snapshots) = 1 /\ driver = "quit" /\ quit_count = 1
                    /\ result = <<>>)
          /\ pc = "returned"
                => (/\ Len(snapshots) = 1
                    /\ driver = "quit"
                    /\ quit_count = 1
                    /\ SameFragments(result, snapshots[1])))
    /\ [][Len(snapshots) = 1
            => (/\ snapshots' = snapshots
                /\ article_htmls' = article_htmls
                /\ scroll_calls' = scroll_calls
                /\ passes_in_iter' = passes_in_iter
                /\ pc' \in {"sort", "returned"})]_vars

\* C20 witness: scrape returned two fragments in another order than the snapshot
\* holds them.
C20_Witness ==
    /\ pc = "returned"
    /\ Len(snapshots) = 1
    /\ Len(snapshots[1]) = 2
    /\ result = <<snapshots[1][2].html, snapshots[1][1].html>>
    /\ snapshots[1][1].html # snapshots[1][2].html
    /\ quit_count = 1

====
